---- MODULE Spec2Model ----
(***************************************************************************)
(* A model of the tweet sampler (scripts/sampler_api.py, scripts/utils.py):*)
(* the period generator get_periods, the query builder build_query and the *)
(* resumable fetch loop of the main program.                               *)
(*                                                                         *)
(* Text (timestamps, file names, queries) is a sequence of one-character   *)
(* strings.  A naive datetime is the number of seconds since               *)
(* EpochYear-01-01 00:00:00 on the wall clock; timestamp() turns it into   *)
(* seconds since EpochYear-01-01 00:00:00 UTC by the rules of the time     *)
(* zone of the process (tz) and the fold of the datetime.  datetime.now()  *)
(* is one value per run (whole seconds: the comparisons of the code and    *)
(* strftime give the same results for now and for now rounded down).       *)
(* None and the exceptions that end a run are values that are no text.     *)
(***************************************************************************)
EXTENDS Integers, Sequences, FiniteSets, TLC

VARIABLES
    pc,                     \* position of the main program ("start"; "loop", the top
                            \* of an attempt; "sleep" and "retry_sleep", inside
                            \* time.sleep of line 237 and of line 245; "done";
                            \* "raised"; "killed"), or of the function applied
    argv,                   \* the command line, the same for every run, and in
                            \* stop_words_file the file at stop_words_path
    args,                   \* parsed command line (args.sleep_duration is mutable),
                            \* or the arguments of the function that is applied
    now,                    \* datetime.now() of the current run (wall clock)
    fold,                   \* its fold: 1 in the second pass of a repeated hour
    tz,                     \* time zone of the process (the TZ of its environment)
    dir,                    \* output directory: file name -> content
    query_string,           \* result of build_query
    all_periods,            \* result of get_periods
    responses_collected,    \* file names found at startup
    idx,                    \* position of the fetch loop in the flattened periods
    n_requests_until_fail,  \* the run's request counter
    events,                 \* calls of query_twitter and artifacts written in this
                            \* run, in order
    last,                   \* outcome of the latest step of the fetch loop
    last_sleep,             \* argument of the latest time.sleep call
    dir_at_start,           \* the directory as the current run found it
    n_failures,             \* failed attempts in this run that reached line 247
    run                     \* number of the current run

vars == <<pc, argv, args, now, fold, tz, dir, query_string, all_periods, responses_collected,
          idx, n_requests_until_fail, events, last, last_sleep, dir_at_start,
          n_failures, run>>

----------------------------------------------------------------------------
(* Bounds of the model *)

\* last year a run may name as start_year or stop_year
MaxYear == 2008
\* failed attempts per run
MaxFailures == 3
\* runs over one output directory
MaxRuns == 2

----------------------------------------------------------------------------
(* Program constants *)

MinYear == 2006
MonthsPerYear == 12
MaxDayOfMonth == 31
MaxHour == 23
MinAgeSeconds == 5400
DailyClipSeconds == 3600
DaysPerWeek == 7
QueryLimit == 1024
SleepIncrement == 1
SecondsPerHour == 3600
SecondsPerDay == 86400
\* datetimes are counted from the first year a run may name
EpochYear == MinYear

\* None, and the exceptions a run ends with: values that are no text
None == <<"None">>
AssertionError == <<"AssertionError">>
TypeError == <<"TypeError">>
SystemExit == <<"SystemExit">>
ArgumentTypeError == <<"ArgumentTypeError">>
AttributeError == <<"AttributeError">>
KeyError == <<"KeyError">>
ValueError == <<"ValueError">>
\* whatever pd.read_csv raises for a file it cannot read or parse
ReadCsvError == <<"ReadCsvError">>
Exceptions ==
    {AssertionError, TypeError, SystemExit, AttributeError, KeyError, ValueError,
     ReadCsvError}

\* the truth value of an optional text
Truthy(x) == x # None /\ x # <<>>

----------------------------------------------------------------------------
(* Text *)

DigitChars == <<"0", "1", "2", "3", "4", "5", "6", "7", "8", "9">>

Digit(n) == DigitChars[n + 1]

\* s.replace(old, '') for a one-character old
replace(s, old) == SelectSeq(s, LAMBDA c : c # old)

\* s.endswith(suffix)
endswith(s, suffix) ==
    /\ Len(s) >= Len(suffix)
    /\ SubSeq(s, Len(s) - Len(suffix) + 1, Len(s)) = suffix

----------------------------------------------------------------------------
(* Calendar: datetime, timedelta, strftime, pandas daysinmonth *)

IsLeap(year) == (year % 4 = 0 /\ year % 100 # 0) \/ year % 400 = 0

\* pd.Period(f'{year}-{month}-1').daysinmonth
daysinmonth(year, month) ==
    IF month = 2 THEN (IF IsLeap(year) THEN 29 ELSE 28)
    ELSE IF month = 4 \/ month = 6 \/ month = 9 \/ month = 11 THEN 30 ELSE 31

DaysInYear(year) == IF IsLeap(year) THEN 366 ELSE 365

RECURSIVE DaysBeforeYear(_)
DaysBeforeYear(year) ==
    IF year <= EpochYear THEN 0
    ELSE DaysBeforeYear(year - 1) + DaysInYear(year - 1)

\* days of a common year before each month
DaysBeforeMonthTable == <<0, 31, 59, 90, 120, 151, 181, 212, 243, 273, 304, 334>>

DaysBeforeMonth(year, month) ==
    DaysBeforeMonthTable[month] + (IF month > 2 /\ IsLeap(year) THEN 1 ELSE 0)

\* datetime(year, month, day, hour) raises ValueError
datetime_invalid(year, month, day, hour) ==
    \/ month < 1 \/ month > 12
    \/ day < 1 \/ day > daysinmonth(year, month)
    \/ hour < 0 \/ hour > 23

\* datetime(year, month, day, hour, minute, second)
datetime(year, month, day, hour, minute, second) ==
    (DaysBeforeYear(year) + DaysBeforeMonth(year, month) + (day - 1)) * SecondsPerDay
    + hour * SecondsPerHour + minute * 60 + second

RECURSIVE YearOfDays(_, _)
YearOfDays(days, year) ==
    IF days < DaysInYear(year) THEN <<year, days>>
    ELSE YearOfDays(days - DaysInYear(year), year + 1)

RECURSIVE MonthOfDays(_, _, _)
MonthOfDays(days, year, month) ==
    IF days < daysinmonth(year, month) THEN <<month, days>>
    ELSE MonthOfDays(days - daysinmonth(year, month), year, month + 1)

FieldsOfMonth(year, md, s) ==
    [year |-> year, month |-> md[1], day |-> md[2] + 1,
     hour |-> s \div SecondsPerHour, minute |-> (s % SecondsPerHour) \div 60,
     second |-> s % 60]

FieldsOfYear(yd, s) == FieldsOfMonth(yd[1], MonthOfDays(yd[2], yd[1], 1), s)

\* the fields .year, .month, .day, .hour, .minute, .second of a datetime
Fields(t) == FieldsOfYear(YearOfDays(t \div SecondsPerDay, EpochYear), t % SecondsPerDay)

\* "%Y-%m-%dT%H:%M:%SZ" of the fields f
FormatFields(f) ==
    << Digit((f.year \div 1000) % 10), Digit((f.year \div 100) % 10),
       Digit((f.year \div 10) % 10), Digit(f.year % 10), "-",
       Digit(f.month \div 10), Digit(f.month % 10), "-",
       Digit(f.day \div 10), Digit(f.day % 10), "T",
       Digit(f.hour \div 10), Digit(f.hour % 10), ":",
       Digit(f.minute \div 10), Digit(f.minute % 10), ":",
       Digit(f.second \div 10), Digit(f.second % 10), "Z" >>

\* t.strftime("%Y-%m-%dT%H:%M:%SZ")
strftime(t) == FormatFields(Fields(t))

----------------------------------------------------------------------------
(* Time zones: what time.localtime and datetime.timestamp take from the    *)
(* zone of the process.  An instant is a number of seconds since           *)
(* EpochYear-01-01 00:00:00 UTC.                                           *)

Min(a, b) == IF a < b THEN a ELSE b
Max(a, b) == IF a > b THEN a ELSE b

Zones == {"UTC", "Europe/Berlin", "America/New_York"}

\* day of the week of a date, 0 for Sunday (EpochYear-01-01 is a Sunday)
weekday(year, month, day) ==
    (DaysBeforeYear(year) + DaysBeforeMonth(year, month) + (day - 1)) % 7

FirstSunday(year, month) == 1 + ((7 - weekday(year, month, 1)) % 7)

LastSunday(year, month) ==
    daysinmonth(year, month) - weekday(year, month, daysinmonth(year, month))

StandardOffset(zone) ==
    CASE zone = "Europe/Berlin" -> SecondsPerHour
      [] zone = "America/New_York" -> - 5 * SecondsPerHour
      [] OTHER -> 0

\* the instant at which daylight saving time begins in a year: the last
\* Sunday of March at 01:00 UTC (Berlin); the first Sunday of April before
\* 2007 and the second Sunday of March since, at 02:00 standard time (New
\* York)
DstBegin(zone, year) ==
    IF zone = "Europe/Berlin" THEN datetime(year, 3, LastSunday(year, 3), 1, 0, 0)
    ELSE IF year < 2007 THEN datetime(year, 4, FirstSunday(year, 4), 7, 0, 0)
    ELSE datetime(year, 3, FirstSunday(year, 3) + 7, 7, 0, 0)

\* the instant at which it ends: the last Sunday of October at 01:00 UTC
\* (Berlin); the last Sunday of October before 2007 and the first Sunday of
\* November since, at 02:00 daylight time (New York)
DstEnd(zone, year) ==
    IF zone = "Europe/Berlin" THEN datetime(year, 10, LastSunday(year, 10), 1, 0, 0)
    ELSE IF year < 2007 THEN datetime(year, 10, LastSunday(year, 10), 6, 0, 0)
    ELSE datetime(year, 11, FirstSunday(year, 11), 6, 0, 0)

\* the years whose instants the conversions touch
ZoneYears == EpochYear..(MaxYear + 3)

\* begin and end of daylight saving time by zone and year
DstTable ==
    [zone \in Zones \ {"UTC"} |->
        [year \in ZoneYears |-> <<DstBegin(zone, year), DstEnd(zone, year)>>]]

InDst(zone, u, year) == DstTable[zone][year][1] <= u /\ u < DstTable[zone][year][2]

\* the offset of the wall clock from UTC at the instant u (the instants
\* before EpochYear that the conversions touch lie in its last winter days)
utcoffset(zone, u) ==
    IF zone = "UTC" THEN 0
    ELSE IF u < 0 THEN StandardOffset(zone)
    ELSE StandardOffset(zone)
         + (IF InDst(zone, u, YearOfDays(u \div SecondsPerDay, EpochYear)[1])
            THEN SecondsPerHour ELSE 0)

\* time.localtime(u) as a wall clock
local(zone, u) == u + utcoffset(zone, u)

\* the end of local_to_seconds: the second candidate u2 = t - b
local_to_seconds_second(zone, t, fold_of_t, u1, t1, u2) ==
    IF local(zone, u2) = t THEN u2
    ELSE IF t1 = t THEN u1
    ELSE IF fold_of_t = 1 THEN Min(u1, u2) ELSE Max(u1, u2)

\* u1 is a solution: the offset b a day earlier (fold 0) or later (fold 1)
\* tells whether there is another one
local_to_seconds_probe(zone, t, fold_of_t, a, u1, t1, b) ==
    IF a = b THEN u1
    ELSE local_to_seconds_second(zone, t, fold_of_t, u1, t1, t - b)

\* with the first candidate u1 = t - a and t1 = local(u1)
local_to_seconds_first(zone, t, fold_of_t, a, u1, t1) ==
    IF t1 = t
    THEN local_to_seconds_probe(zone, t, fold_of_t, a, u1, t1,
             utcoffset(zone, u1 + (IF fold_of_t = 1 THEN SecondsPerDay
                                   ELSE - SecondsPerDay)))
    ELSE local_to_seconds_second(zone, t, fold_of_t, u1, t1, t - (t1 - u1))

local_to_seconds_offset(zone, t, fold_of_t, a) ==
    local_to_seconds_first(zone, t, fold_of_t, a, t - a, local(zone, t - a))

\* datetime.timestamp() of a naive datetime (local_to_seconds of CPython's
\* _datetimemodule, _mktime of datetime.py): the instant u with
\* local(u) = t, the earlier one for fold 0 and the later one for fold 1
\* when there are two, and an instant past the change when there is none
local_to_seconds(zone, t, fold_of_t) ==
    local_to_seconds_offset(zone, t, fold_of_t, utcoffset(zone, t))

\* datetime.timestamp() in the zone of the process
timestamp(t, fold_of_t) == local_to_seconds(tz, t, fold_of_t)

\* datetime.now() can return the wall clock t with this fold in the zone:
\* t is the wall clock of an instant, and the fold is 1 only in the second
\* pass of a repeated hour
IsNow(zone, t, fold_of_t) ==
    /\ local(zone, local_to_seconds(zone, t, fold_of_t)) = t
    /\ fold_of_t = 1 => local_to_seconds(zone, t, 1) # local_to_seconds(zone, t, 0)

----------------------------------------------------------------------------
(* utils.py *)

RECURSIVE SumDaysInMonths(_, _)
SumDaysInMonths(year, month) ==
    IF month > MonthsPerYear THEN 0
    ELSE daysinmonth(year, month) + SumDaysInMonths(year, month + 1)

RECURSIVE get_number_of_days(_, _)
get_number_of_days(start_year, stop_year) ==
    IF start_year > stop_year THEN 0
    ELSE SumDaysInMonths(start_year, 1) + get_number_of_days(start_year + 1, stop_year)

\* a check that also rejects a start exactly 90 minutes old
check_invalid_date_at_limit(year, month, day, hour, dt_now) ==
    IF datetime_invalid(year, month, day, hour) THEN TRUE
    ELSE timestamp(dt_now, fold) - timestamp(datetime(year, month, day, hour, 0, 0), 0)
         <= MinAgeSeconds

\* lines 71-82: TRUE when the date does not exist, or when fewer than 90
\* minutes lie between its timestamp and the timestamp of dt_now (which is
\* datetime.now(), with the fold of the clock)
check_invalid_date(year, month, day, hour, dt_now) ==
    IF datetime_invalid(year, month, day, hour) THEN TRUE
    ELSE timestamp(dt_now, fold) - timestamp(datetime(year, month, day, hour, 0, 0), 0)
         < MinAgeSeconds

\* the pair appended to day_periods: both times formatted
period(start_time, end_time) == <<strftime(start_time), strftime(end_time)>>

\* the lists ss[lo], ..., ss[hi] joined in order, by halves
RECURSIVE ConcatRange(_, _, _)
ConcatRange(ss, lo, hi) ==
    IF lo > hi THEN <<>>
    ELSE IF lo = hi THEN ss[lo]
    ELSE ConcatRange(ss, lo, (lo + hi) \div 2) \o ConcatRange(ss, (lo + hi) \div 2 + 1, hi)

Concat(ss) == ConcatRange(ss, 1, Len(ss))

\* what a stretch of a loop appended and the stop flag as it leaves it (a),
\* followed by the rest of the loop (b)
Then(a, b) == [day_periods |-> a.day_periods \o b.day_periods, stop |-> b.stop]

Appended(ps, stop) == [day_periods |-> ps, stop |-> stop]

(* hourly: lines 90-104.  No iteration of these loops depends on an earlier *)
(* one, so each loop is the join of what its iterations append.            *)
hourly_period(start_time) == period(start_time, start_time + SecondsPerHour)

hourly_hour(year, month, day, hour, dt_now) ==
    IF check_invalid_date(year, month, day, hour, dt_now) THEN <<>>
    ELSE <<hourly_period(datetime(year, month, day, hour, 0, 0))>>

hourly_hours(year, month, day, dt_now) ==
    Concat([i \in 1..(MaxHour + 1) |-> hourly_hour(year, month, day, i - 1, dt_now)])

hourly_days(year, month, dt_now) ==
    Concat([day \in 1..MaxDayOfMonth |-> hourly_hours(year, month, day, dt_now)])

hourly_months(year, dt_now) ==
    Concat([month \in 1..MonthsPerYear |-> hourly_days(year, month, dt_now)])

hourly_years(start_year, stop_year, dt_now) ==
    Concat([i \in 1..(stop_year - start_year + 1) |->
                hourly_months(start_year + i - 1, dt_now)])

(* daily: lines 106-127.  st = [day_periods, stop, broke] is the state of   *)
(* the loops; broke says that the loop over the days of the month was left  *)
(* by the break.  The break leaves that loop only, and stop stays set.      *)
\* lines 114-124 for the day that starts at start_time
daily_period_cut_at_now(start_time, end_time, date_today) ==
    period(start_time, IF date_today - end_time < 0 THEN date_today ELSE end_time)

\* lines 113-122
daily_period(start_time, end_time, date_today) ==
    period(start_time,
           IF date_today - end_time < 0 THEN date_today - DailyClipSeconds ELSE end_time)

daily_stop(end_time, date_today, stop) == stop \/ date_today - end_time < 0

\* lines 113-127
daily_append(st, start_time, end_time, date_today) ==
    [day_periods |-> Append(st.day_periods, daily_period(start_time, end_time, date_today)),
     stop        |-> daily_stop(end_time, date_today, st.stop),
     broke       |-> daily_stop(end_time, date_today, st.stop)]

\* lines 110-127: one iteration of the loop over the days
daily_day(st, year, month, day, dt_now) ==
    IF check_invalid_date(year, month, day, 0, dt_now) THEN st
    ELSE daily_append(st, datetime(year, month, day, 0, 0, 0),
                      datetime(year, month, day, 0, 0, 0) + SecondsPerDay, dt_now)

RECURSIVE daily_days(_, _, _, _, _, _)

daily_days_second_half(half, year, month, mid, hi, dt_now) ==
    IF half.broke THEN half ELSE daily_days(half, year, month, mid + 1, hi, dt_now)

\* days lo..hi of the month, in order (split in halves); the break ends
\* the loop
daily_days(st, year, month, lo, hi, dt_now) ==
    IF lo > hi THEN st
    ELSE IF lo = hi THEN daily_day(st, year, month, lo, dt_now)
    ELSE daily_days_second_half(daily_days(st, year, month, lo, (lo + hi) \div 2, dt_now),
                                year, month, (lo + hi) \div 2, hi, dt_now)

\* line 109: the loop over the days of one month starts
daily_month(st, year, month, dt_now) ==
    daily_days([day_periods |-> st.day_periods, stop |-> st.stop, broke |-> FALSE],
               year, month, 1, MaxDayOfMonth, dt_now)

RECURSIVE daily_months(_, _, _, _, _)

\* (the test has TLC evaluate the first half before it enters the second)
daily_months_second_half(half, year, mid, hi, dt_now) ==
    IF half.stop THEN daily_months(half, year, mid + 1, hi, dt_now)
    ELSE daily_months(half, year, mid + 1, hi, dt_now)

\* months lo..hi of the year, in order (split in halves)
daily_months(st, year, lo, hi, dt_now) ==
    IF lo > hi THEN st
    ELSE IF lo = hi THEN daily_month(st, year, lo, dt_now)
    ELSE daily_months_second_half(daily_months(st, year, lo, (lo + hi) \div 2, dt_now),
                                  year, (lo + hi) \div 2, hi, dt_now)

RECURSIVE daily_years(_, _, _, _)

\* (the test has TLC evaluate one year before it enters the next)
daily_years_after(this, year, stop_year, dt_now) ==
    IF this.stop THEN daily_years(this, year + 1, stop_year, dt_now)
    ELSE daily_years(this, year + 1, stop_year, dt_now)

daily_years(st, year, stop_year, dt_now) ==
    IF year > stop_year THEN st
    ELSE daily_years_after(daily_months(st, year, 1, MonthsPerYear, dt_now),
                           year, stop_year, dt_now)

daily_loop(start_year, stop_year, dt_now) ==
    daily_years([day_periods |-> <<>>, stop |-> FALSE, broke |-> FALSE],
                start_year, stop_year, dt_now).day_periods

(* weekly: lines 129-150.  st = [start_time, day_periods, stop] is the      *)
(* state of the loop; continue leaves start_time as it is, and after the   *)
(* break the remaining iterations do nothing.                              *)
weekly_invalid(f, dt_now) == check_invalid_date(f.year, f.month, f.day, 0, dt_now)

\* an append that leaves start_time where it is
weekly_append_same_start(st, end_time, date_today) ==
    [start_time  |-> st.start_time,
     day_periods |-> Append(st.day_periods,
                            period(st.start_time,
                                   IF date_today - end_time < 0 THEN date_today ELSE end_time)),
     stop        |-> date_today - end_time < 0]

\* lines 135-150
weekly_append(st, end_time, date_today) ==
    IF date_today - end_time < 0
    THEN [start_time  |-> st.start_time,
          day_periods |-> Append(st.day_periods, period(st.start_time, date_today)),
          stop        |-> TRUE]
    ELSE [start_time  |-> end_time,
          day_periods |-> Append(st.day_periods, period(st.start_time, end_time)),
          stop        |-> FALSE]

weekly_body(st, dt_now) ==
    IF st.stop THEN st
    ELSE IF weekly_invalid(Fields(st.start_time), dt_now) THEN st
    ELSE weekly_append(st, st.start_time + DaysPerWeek * SecondsPerDay, dt_now)

RECURSIVE weekly_iterations(_, _, _, _)

weekly_second_half(half, mid, hi, dt_now) ==
    IF half.stop THEN half ELSE weekly_iterations(half, mid + 1, hi, dt_now)

\* iterations lo..hi of the loop, in order (split in halves); the break
\* ends the loop
weekly_iterations(st, lo, hi, dt_now) ==
    IF lo > hi THEN st
    ELSE IF lo = hi THEN weekly_body(st, dt_now)
    ELSE weekly_second_half(weekly_iterations(st, lo, (lo + hi) \div 2, dt_now),
                            (lo + hi) \div 2, hi, dt_now)

\* len(range(1, n_days, 7))
weekly_range_len(n_days) == IF n_days <= 1 THEN 0 ELSE (n_days - 2) \div DaysPerWeek + 1

weekly_loop(n_days, start_time, dt_now) ==
    weekly_iterations([start_time |-> start_time, day_periods |-> <<>>, stop |-> FALSE],
                      1, weekly_range_len(n_days), dt_now).day_periods

(* monthly: lines 152-179 *)
\* the first instant of the next month
monthly_end_time_next_start(year, month) ==
    IF month + 1 > 12 THEN datetime(year + 1, 1, 1, 0, 0, 0)
    ELSE datetime(year, month + 1, 1, 0, 0, 0)

\* lines 160-166
monthly_end_time(year, month) ==
    IF month + 1 > 12 THEN datetime(year + 1, 1, 1, 0, 0, 0) - 1
    ELSE datetime(year, month + 1, 1, 0, 0, 0) - 1

\* lines 167-176: the end is cut at date_today when it is later
clipped_period(start_time, end_time, date_today) ==
    period(start_time, IF date_today - end_time < 0 THEN date_today ELSE end_time)

RECURSIVE monthly_months(_, _, _, _)

monthly_month(year, month, dt_now, end_time, stop) ==
    IF stop \/ dt_now - end_time < 0
    THEN Appended(<<clipped_period(datetime(year, month, 1, 0, 0, 0), end_time, dt_now)>>, TRUE)
    ELSE Then(Appended(<<clipped_period(datetime(year, month, 1, 0, 0, 0), end_time, dt_now)>>,
                       FALSE),
              monthly_months(year, month + 1, dt_now, FALSE))

monthly_months(year, month, dt_now, stop) ==
    IF month > MonthsPerYear THEN Appended(<<>>, stop)
    ELSE IF check_invalid_date(year, month, 1, 0, dt_now)
         THEN monthly_months(year, month + 1, dt_now, stop)
         ELSE monthly_month(year, month, dt_now, monthly_end_time(year, month), stop)

RECURSIVE monthly_years(_, _, _, _)

monthly_years_after(year, stop_year, dt_now, this) ==
    Then(this, monthly_years(year + 1, stop_year, dt_now, this.stop))

monthly_years(year, stop_year, dt_now, stop) ==
    IF year > stop_year THEN Appended(<<>>, stop)
    ELSE monthly_years_after(year, stop_year, dt_now, monthly_months(year, 1, dt_now, stop))

(* yearly: lines 181-201 *)
RECURSIVE yearly_years(_, _, _)

yearly_year(year, stop_year, dt_now, end_time) ==
    IF dt_now - end_time < 0
    THEN <<clipped_period(datetime(year, 1, 1, 0, 0, 0), end_time, dt_now)>>
    ELSE <<clipped_period(datetime(year, 1, 1, 0, 0, 0), end_time, dt_now)>>
         \o yearly_years(year + 1, stop_year, dt_now)

yearly_years(year, stop_year, dt_now) ==
    IF year > stop_year THEN <<>>
    ELSE IF check_invalid_date(year, 1, 1, 0, dt_now)
         THEN yearly_years(year + 1, stop_year, dt_now)
         ELSE yearly_year(year, stop_year, dt_now, datetime(year + 1, 1, 1, 0, 0, 0) - 1)

\* the list day_periods that get_periods fills for time_range
day_periods_of(time_range, start_year, stop_year, dt_now) ==
    CASE time_range = "hourly"  -> hourly_years(start_year, stop_year, dt_now)
      [] time_range = "daily"   -> daily_loop(start_year, stop_year, dt_now)
      [] time_range = "weekly"  -> weekly_loop(get_number_of_days(start_year, stop_year),
                                               datetime(start_year, 1, 1, 0, 0, 0), dt_now)
      [] time_range = "monthly" -> monthly_years(start_year, stop_year, dt_now, FALSE).day_periods
      [] time_range = "yearly"  -> yearly_years(start_year, stop_year, dt_now)
      [] OTHER -> <<>>

\* lines 203-206
wrap_periods(day_periods) == IF Len(day_periods) > 0 THEN <<day_periods>> ELSE <<>>

get_periods(time_range, start_year, stop_year, dt_now) ==
    wrap_periods(day_periods_of(time_range, start_year, stop_year, dt_now))

----------------------------------------------------------------------------
(* sampler_api.py *)

RECURSIVE join_words(_, _)
\* the loop of lines 72-76 from word n on: each word quoted, ' OR ' between
join_words(stop_words, n) ==
    IF n > Len(stop_words) THEN <<>>
    ELSE <<"\"">> \o stop_words[n] \o <<"\"">>
         \o (IF n < Len(stop_words) THEN <<" ", "O", "R", " ">> ELSE <<>>)
         \o join_words(stop_words, n + 1)

\* lines 61-70: a filter that was given, and the separator after it
filter_part(filter) == IF Truthy(filter) THEN filter \o <<" ">> ELSE <<>>

\* filters with the country before the place
end_string_country_first(lang, place, country, point_radius, coords) ==
    filter_part(lang) \o filter_part(country) \o filter_part(place)
    \o filter_part(point_radius) \o filter_part(coords)

\* lines 61-70: what the filters add to end_string
end_string_filters(lang, place, country, point_radius, coords) ==
    filter_part(lang) \o filter_part(place) \o filter_part(country)
    \o filter_part(point_radius) \o filter_part(coords)

\* a pandas Series of the values ws, as distinct from the list of them
Series(ws) == << <<"Series">> >> \o ws

\* lines 52-84; the truth value of a Series, asked for in line 54, raises
\* ValueError
build_query(stop_words, lang, place, country, point_radius, coords, query_options) ==
    IF Len(stop_words) > 0 /\ stop_words[1] = <<"Series">> THEN ValueError
    ELSE (IF stop_words # <<>> THEN <<"(">> ELSE <<>>)
         \o join_words(stop_words, 1)
         \o (IF stop_words # <<>> THEN <<")", " ">> ELSE <<" ">>)
         \o end_string_filters(lang, place, country, point_radius, coords)
         \o query_options

LangPrefix == <<"l", "a", "n", "g", ":">>
PlacePrefix == <<"p", "l", "a", "c", "e", ":">>
CountryPrefix == <<"p", "l", "a", "c", "e", "_", "c", "o", "u", "n", "t", "r", "y", ":">>

\* the characters that the pattern \s of re matches in a str (utils.py lines
\* 39 and 54): the Unicode whitespace, which is U+0009 to U+000D, U+001C to
\* U+001F, U+0020, U+0085, U+00A0, U+1680, U+2000 to U+200A, U+2028, U+2029,
\* U+202F, U+205F and U+3000. A character is a string of one character; one
\* above U+00FF, which no string of this language holds, is the string of
\* its code point ("U+2003")
Whitespace ==
    {" ", "\t", "\n", "\r", "\f", "", "", "", "", "", "", " ",
     "U+1680", "U+2000", "U+2001", "U+2002", "U+2003", "U+2004", "U+2005", "U+2006", "U+2007",
     "U+2008", "U+2009", "U+200A", "U+2028", "U+2029", "U+202F", "U+205F", "U+3000"}

RECURSIVE findall_fields(_, _, _)
\* utils.py lines 39 and 54, re.findall(r'\s|,|[^,\s]+', astring) from
\* character n on, with token the run of other characters read so far: every
\* whitespace character and every comma is a match of its own, and so is
\* every longest run of other characters
findall_fields(astring, n, token) ==
    IF n > Len(astring) THEN (IF token # <<>> THEN <<token>> ELSE <<>>)
    ELSE IF astring[n] \in Whitespace \cup {","}
         THEN (IF token # <<>> THEN <<token>> ELSE <<>>)
              \o << <<astring[n]>> >> \o findall_fields(astring, n + 1, <<>>)
         ELSE findall_fields(astring, n + 1, Append(token, astring[n]))

\* the matches other than ',' and ' '
inp_loc(astring) ==
    SelectSeq(findall_fields(astring, 1, <<>>), LAMBDA l : l # <<",">> /\ l # <<" ">>)

\* utils.py lines 38-51: the fields are strings, so with two or three of
\* them the comparison lon >= -180 raises TypeError; with another number
\* the function exits
validate_point_radius(astring) ==
    IF Len(inp_loc(astring)) \in {2, 3} THEN TypeError ELSE SystemExit

\* utils.py lines 53-62: likewise with four fields
validate_coords(astring) ==
    IF Len(inp_loc(astring)) = 4 THEN TypeError ELSE SystemExit

\* lines 121-154: the filters handed to build_query, or the exception that
\* the branch of the location type raises
main_lang(a) == IF Truthy(a.lang) THEN LangPrefix \o a.lang ELSE None
main_place(a) ==
    IF a.location_type = "place"
    THEN (IF a.place = None THEN AssertionError ELSE PlacePrefix \o a.place)
    ELSE None
main_country(a) ==
    IF a.location_type = "place_country"
    THEN (IF a.country = None THEN AssertionError ELSE CountryPrefix \o a.country)
    ELSE None
main_point_radius(a) ==
    IF a.location_type = "point_radius"
    THEN (IF a.point_radius = None THEN AssertionError
          ELSE validate_point_radius(a.point_radius))
    ELSE None
main_coords(a) ==
    IF a.location_type = "bounding_box"
    THEN (IF a.coords = None THEN AssertionError ELSE validate_coords(a.coords))
    ELSE None

\* utils.py lines 10-13
validate_stopwords_file(astring) ==
    IF ~ (endswith(astring, <<".", "t", "s", "v">>)
          \/ endswith(astring, <<".", "c", "s", "v">>))
    THEN ArgumentTypeError
    ELSE astring

\* lines 161-167: the frame that pd.read_csv returns for a file that it
\* reads as the rows file.rows of cells, with the separator that the
\* extension of the path selects: without a header the columns are labelled
\* 0, 1, ... (no label is a str) and every row is data, with header=0 the
\* cells of the first row are the labels
read_csv(file, has_header) ==
    [labels |-> IF has_header THEN file.rows[1] ELSE <<>>,
     rows |-> IF has_header THEN Tail(file.rows) ELSE file.rows]

\* the values of column k of a frame, from the first row on
column(df, k) == [r \in 1..Len(df.rows) |-> df.rows[r][k]]

\* lines 156-176: the exception that the loading of the stop words raises,
\* or None: stop_words_path is None in line 164; read_csv raises; the
\* column name is no label of the frame (lines 171-175; the labels of a
\* frame without header are integers, the name is a str); stop_words[0] of
\* a frame whose labels are the cells of a header (line 177)
stop_words_exception(a) ==
    IF a.without_stopwords THEN None
    ELSE IF a.stop_words_path = None THEN AttributeError
    ELSE IF a.stop_words_file.raises THEN ReadCsvError
    ELSE IF a.stopwords_column_name # <<>>
         THEN (IF \E k \in 1..Len(read_csv(a.stop_words_file, a.has_header).labels) :
                      read_csv(a.stop_words_file, a.has_header).labels[k]
                          = a.stopwords_column_name
               THEN None ELSE SystemExit)
         ELSE (IF a.has_header THEN KeyError ELSE None)

\* lines 156-177: the stop words handed to build_query when nothing raised:
\* the empty list, the Series of the named column (line 171 has no list()),
\* or the list of column 0
main_stop_words(a) ==
    IF a.without_stopwords THEN <<>>
    ELSE IF a.stopwords_column_name # <<>>
         THEN LET df == read_csv(a.stop_words_file, a.has_header) IN
              Series(column(df, CHOOSE k \in 1..Len(df.labels) :
                                    df.labels[k] = a.stopwords_column_name))
         ELSE column(read_csv(a.stop_words_file, a.has_header), 1)

\* the exception raised in lines 107-177, or None; parse_args (line 107)
\* ends the program when the type of an argument raises ArgumentTypeError
main_exception(a) ==
    IF a.stop_words_path # None
       /\ validate_stopwords_file(a.stop_words_path) = ArgumentTypeError
    THEN SystemExit
    ELSE IF main_place(a) \in Exceptions THEN main_place(a)
    ELSE IF main_country(a) \in Exceptions THEN main_country(a)
    ELSE IF main_point_radius(a) \in Exceptions THEN main_point_radius(a)
    ELSE IF main_coords(a) \in Exceptions THEN main_coords(a)
    ELSE stop_words_exception(a)

\* lines 107-179: the query string, or the exception that ends the run
\* before it is built
main_query_string(a) ==
    IF main_exception(a) # None THEN main_exception(a)
    ELSE build_query(main_stop_words(a), main_lang(a), main_place(a), main_country(a),
                     main_point_radius(a), main_coords(a), a.query_options)

ResponseSuffix ==
    <<".", "r", "e", "s", "p", "o", "n", "s", "e", ".", "j", "s", "o", "n">>

\* line 215
response_fn(start_time, end_time) ==
    replace(start_time, ":") \o <<"_">> \o replace(end_time, ":") \o ResponseSuffix

FnOfPeriod(w) == response_fn(w[1], w[2])

\* a listing that keeps the files that are no artifacts
listdir_responses_others(d) == {fn \in DOMAIN d : ~ endswith(fn, ResponseSuffix)}

\* lines 205-208
listdir_responses(d) == {fn \in DOMAIN d : endswith(fn, ResponseSuffix)}

\* the periods in the order of the two nested loops of lines 211-213
Windows == Concat(all_periods)

\* the artifact of lines 228-234, and a file left open or half written
Artifact(w) == [complete |-> TRUE, start_time |-> w[1], end_time |-> w[2]]
Partial == [complete |-> FALSE, start_time |-> <<>>, end_time |-> <<>>]

Put(d, fn, content) == [f \in DOMAIN d \cup {fn} |-> IF f = fn THEN content ELSE d[f]]

\* a limit that leaves out its last character
query_too_long_at_limit(q) == Len(q) >= QueryLimit

\* line 196
query_too_long(q) == Len(q) > QueryLimit

\* line 238
counter_after_success(n) == n + 1

\* line 246
counter_after_failure(n) == 0

\* a sleep duration that a failure leaves as it is
sleep_after_failure_kept(d) == d

\* line 247, in hundredths of a second
sleep_after_failure(d) == d + SleepIncrement

\* a retry loop that a success does not leave
position_after_success_same(i) == i

\* line 239: the break ends the retry loop and the for loop goes on
position_after_success_skip(i) == i + 2

\* lines 221 and 241-247: the except clause ends and the while loop repeats
\* the attempt for the same period
position_after_failure(i) == i

position_after_success(i) == i + 1

\* the call of query_twitter of lines 225-227 with its query_params, which
\* raised or was answered, and the artifact written by lines 233-234
RequestEvent(w, outcome) ==
    [kind |-> "request", outcome |-> outcome, start_time |-> w[1], end_time |-> w[2]]
WriteEvent(w) ==
    [kind |-> "write", outcome |-> "written", start_time |-> w[1], end_time |-> w[2]]

----------------------------------------------------------------------------
(* Inputs *)

\* n times the character c
Rep(c, n) == [i \in 1..n |-> c]

Opt == <<"o", "p", "t">>

\* stop words of a run: one word that brings the query with options "opt"
\* and no filter to QueryLimit characters, and to QueryLimit + 1
RunStopWords == { << Rep("x", QueryLimit - 8) >>, << Rep("x", QueryLimit - 7) >> }

\* -stop_words_path w.csv, the file holding one word of ws in every row
FromFile(ws) ==
    [without_stopwords |-> FALSE, stop_words_path |-> <<"w", ".", "c", "s", "v">>,
     has_header |-> FALSE, stopwords_column_name |-> <<>>,
     stop_words_file |-> [raises |-> FALSE, rows |-> [r \in 1..Len(ws) |-> <<ws[r]>>]]]

\* the other stop-word arguments of a run, over a file of the rows w and
\* xxxxx: -without_stopwords; a path that is neither csv nor tsv; no path
\* and no -without_stopwords; a file that read_csv cannot read; -has_header
\* without a column name; a column name without -has_header; -has_header
\* with a name that is no label; -has_header with the label of the column
RunStopWordArgs ==
    LET f == FromFile(<< <<"w">>, Rep("x", 5) >>) IN
    { [f EXCEPT !.without_stopwords = TRUE, !.stop_words_path = None],
      [f EXCEPT !.stop_words_path = <<"w", ".", "t", "x", "t">>],
      [f EXCEPT !.stop_words_path = None],
      [f EXCEPT !.stop_words_file.raises = TRUE],
      [f EXCEPT !.has_header = TRUE],
      [f EXCEPT !.stopwords_column_name = <<"w">>],
      [f EXCEPT !.has_header = TRUE, !.stopwords_column_name = <<"v">>],
      [f EXCEPT !.has_header = TRUE, !.stopwords_column_name = <<"w">>] }

TimeRanges == {"hourly", "daily", "weekly", "monthly", "yearly"}

\* the moments at which a run may start: early on the first day of MinYear,
\* so that a run has a handful of periods to fetch
RunNows == { datetime(MinYear, 1, 1, 3, 40, 0), datetime(MinYear, 1, 1, 5, 10, 0) }

\* the time zone of the process that runs the main program
RunZones == {"UTC"}

\* the location arguments of a run: none; -location_type place without
\* -place; -location_type point_radius with a point and a radius, which are
\* three fields, and with a carriage return in the point, which makes four
RunLocations ==
    { [location_type |-> "none", place |-> None, point_radius |-> None],
      [location_type |-> "place", place |-> None, point_radius |-> None],
      [location_type |-> "point_radius", place |-> None,
       point_radius |-> <<"1", "0", " ", "2", "0", " ", "5">>],
      [location_type |-> "point_radius", place |-> None,
       point_radius |-> <<"1", "0", "\r", "2", "0", " ", "5">>] }

\* the command line of a run: every location and time range with the stop
\* words of a file, and the other stop-word arguments without a location,
\* by day
RunArgs ==
    { [without_stopwords |-> i[1].without_stopwords,
       stop_words_path |-> i[1].stop_words_path,
       has_header |-> i[1].has_header,
       stopwords_column_name |-> i[1].stopwords_column_name,
       stop_words_file |-> i[1].stop_words_file,
       lang |-> None, location_type |-> i[2].location_type,
       place |-> i[2].place, country |-> None, point_radius |-> i[2].point_radius,
       coords |-> None, query_options |-> Opt, time_range |-> i[3],
       start_year |-> MinYear, stop_year |-> MinYear,
       sleep_duration |-> 500, retry_duration |-> 6100] :
        i \in ({ FromFile(ws) : ws \in RunStopWords } \X RunLocations \X TimeRanges)
              \cup (RunStopWordArgs
                    \X {[location_type |-> "none", place |-> None, point_radius |-> None]}
                    \X {"daily"}) }

\* what the output directory may hold before the first run: nothing, or a
\* file that is no artifact beside the artifacts of an hourly period and of
\* a period cut at the first of RunNows
NotesFile == <<"n", "o", "t", "e", "s", ".", "t", "x", "t">>
HourTwo == period(datetime(MinYear, 1, 1, 1, 0, 0), datetime(MinYear, 1, 1, 2, 0, 0))
CutAtNow == period(datetime(MinYear, 1, 1, 0, 0, 0), datetime(MinYear, 1, 1, 3, 40, 0))

DirOf(fs) == [fn \in {f[1] : f \in fs} |-> (CHOOSE f \in fs : f[1] = fn)[2]]

InitialDirs ==
    { DirOf({}),
      DirOf({<<NotesFile, Partial>>, <<FnOfPeriod(HourTwo), Artifact(HourTwo)>>,
             <<FnOfPeriod(CutAtNow), Artifact(CutAtNow)>>}) }

----------------------------------------------------------------------------
(* The main program: one run after another over the same directory *)

NoRunState ==
    /\ query_string = <<>>
    /\ all_periods = <<>>
    /\ responses_collected = {}
    /\ idx = 1
    /\ n_requests_until_fail = 0
    /\ events = <<>>
    /\ last = "none"
    /\ last_sleep = 0
    /\ n_failures = 0

Init ==
    /\ pc = "start"
    /\ argv \in RunArgs
    /\ args = argv
    /\ tz \in RunZones
    /\ now \in RunNows
    /\ fold \in {0, 1}
    /\ IsNow(tz, now, fold)
    /\ dir \in InitialDirs
    /\ dir_at_start = dir
    /\ run = 1
    /\ NoRunState

\* lines 107-179: parse_args refuses the path of the stop words, an
\* assertion on the location arguments fails, validate_point_radius or
\* validate_coords raises or exits, the stop words cannot be loaded, or
\* build_query raises: the run ends before it has a query
StartupRaised ==
    /\ pc = "start"
    /\ main_query_string(args) \in Exceptions
    /\ pc' = "raised"
    /\ last' = "raised"
    /\ UNCHANGED <<argv, args, now, fold, tz, dir, query_string, all_periods,
                   responses_collected, idx, n_requests_until_fail, events,
                   last_sleep, dir_at_start, n_failures, run>>

\* lines 156-198: the query is over the limit; the run reports it and ends
StartupTooLong ==
    /\ pc = "start"
    /\ main_query_string(args) \notin Exceptions
    /\ query_too_long(main_query_string(args))
    /\ query_string' = main_query_string(args)
    /\ pc' = "done"
    /\ UNCHANGED <<argv, args, now, fold, tz, dir, all_periods, responses_collected, idx,
                   n_requests_until_fail, events, last, last_sleep,
                   dir_at_start, n_failures, run>>

\* lines 156-210: the query fits; the periods are generated and the
\* directory is listed
Startup ==
    /\ pc = "start"
    /\ main_query_string(args) \notin Exceptions
    /\ ~ query_too_long(main_query_string(args))
    /\ query_string' = main_query_string(args)
    /\ all_periods' = get_periods(args.time_range, args.start_year, args.stop_year, now)
    /\ responses_collected' = listdir_responses(dir)
    /\ n_requests_until_fail' = 0
    /\ idx' = 1
    /\ pc' = "loop"
    /\ UNCHANGED <<argv, args, now, fold, tz, dir, events, last, last_sleep,
                   dir_at_start, n_failures, run>>

\* the positions of a run inside the loops of lines 211-247: at the top of
\* an attempt, in the sleep of line 237 and in the sleep of line 245
InRun == {"loop", "sleep", "retry_sleep"}

InLoop == pc = "loop" /\ idx <= Len(Windows)

CurrentWindow == Windows[idx]

CurrentFn == response_fn(CurrentWindow[1], CurrentWindow[2])

\* lines 217-219
Skip ==
    /\ InLoop
    /\ CurrentFn \in responses_collected
    /\ idx' = idx + 1
    /\ last' = "skip"
    /\ UNCHANGED <<pc, argv, args, now, fold, tz, dir, query_string, all_periods,
                   responses_collected, n_requests_until_fail, events,
                   last_sleep, dir_at_start, n_failures, run>>

\* lines 241-245: the except clause prints the message and the program
\* sleeps for retry_duration seconds (the model follows a run up to its
\* MaxFailures-th failed attempt; the while True of line 221 has no limit)
OnException ==
    /\ n_failures < MaxFailures
    /\ last_sleep' = args.retry_duration
    /\ pc' = "retry_sleep"

\* lines 223-227 and 241-245: query_twitter raises (no answer, or a status
\* other than 200)
RequestFailed ==
    /\ InLoop
    /\ CurrentFn \notin responses_collected
    /\ events' = Append(events, RequestEvent(CurrentWindow, "raised"))
    /\ OnException
    /\ last' = "request_raised"
    /\ UNCHANGED <<argv, args, now, fold, tz, dir, query_string, all_periods,
                   responses_collected, idx, n_requests_until_fail,
                   dir_at_start, n_failures, run>>

\* lines 223-237: the request succeeds, the artifact is written and the
\* program sleeps for sleep_duration seconds
RequestSucceeded ==
    /\ InLoop
    /\ CurrentFn \notin responses_collected
    /\ events' = events \o <<RequestEvent(CurrentWindow, "answered"), WriteEvent(CurrentWindow)>>
    /\ dir' = Put(dir, CurrentFn, Artifact(CurrentWindow))
    /\ last_sleep' = args.sleep_duration
    /\ pc' = "sleep"
    /\ last' = "written"
    /\ UNCHANGED <<argv, args, now, fold, tz, query_string, all_periods,
                   responses_collected, idx, n_requests_until_fail,
                   dir_at_start, n_failures, run>>

\* lines 238-239: the sleep of line 237 is over, the counter goes up and the
\* break ends the retry loop
SleepOver ==
    /\ pc = "sleep"
    /\ n_requests_until_fail' = counter_after_success(n_requests_until_fail)
    /\ idx' = position_after_success(idx)
    /\ pc' = "loop"
    /\ last' = "succeeded"
    /\ UNCHANGED <<argv, args, now, fold, tz, dir, query_string, all_periods,
                   responses_collected, events, last_sleep, dir_at_start,
                   n_failures, run>>

\* lines 228-233 and 241-245: the request is answered, and the answer has no
\* result count (line 230) or open raises (line 233): the file is as it was
OpenFailed ==
    /\ InLoop
    /\ CurrentFn \notin responses_collected
    /\ events' = Append(events, RequestEvent(CurrentWindow, "answered"))
    /\ OnException
    /\ last' = "write_raised"
    /\ UNCHANGED <<argv, args, now, fold, tz, dir, query_string, all_periods,
                   responses_collected, idx, n_requests_until_fail,
                   dir_at_start, n_failures, run>>

\* lines 233-234 and 241-245: the request succeeds and json.dump raises: the
\* file is left half written
DumpFailed ==
    /\ InLoop
    /\ CurrentFn \notin responses_collected
    /\ events' = Append(events, RequestEvent(CurrentWindow, "answered"))
    /\ dir' = Put(dir, CurrentFn, Partial)
    /\ OnException
    /\ last' = "dump_raised"
    /\ UNCHANGED <<argv, args, now, fold, tz, query_string, all_periods,
                   responses_collected, idx, n_requests_until_fail,
                   dir_at_start, n_failures, run>>

\* lines 246-247 and 221: the sleep of line 245 is over, the counter is set
\* to zero, sleep_duration grows and the while loop repeats the attempt
RetrySleepOver ==
    /\ pc = "retry_sleep"
    /\ n_requests_until_fail' = counter_after_failure(n_requests_until_fail)
    /\ args' = [args EXCEPT !.sleep_duration = sleep_after_failure(@)]
    /\ idx' = position_after_failure(idx)
    /\ n_failures' = n_failures + 1
    /\ pc' = "loop"
    /\ last' = IF last = "request_raised" THEN "failed" ELSE "write_failed"
    /\ UNCHANGED <<argv, now, fold, tz, dir, query_string, all_periods,
                   responses_collected, events, last_sleep, dir_at_start, run>>

\* the loops of lines 211-213 end
LoopDone ==
    /\ pc = "loop"
    /\ idx > Len(Windows)
    /\ pc' = "done"
    /\ UNCHANGED <<argv, args, now, fold, tz, dir, query_string, all_periods,
                   responses_collected, idx, n_requests_until_fail, events,
                   last, last_sleep, dir_at_start, n_failures, run>>

\* the process is ended from outside (a signal, Ctrl-C) before the loops of
\* line 211; lines 86-210 are in no try. It ends before the query is built;
\* or with the query built, before or in get_periods (line 202); or with the
\* periods generated, before or in the listing of lines 205-208, which has
\* added some of the artifacts of the directory
InterruptedInStartup ==
    /\ pc = "start"
    /\ \E reached \in {"start", "query", "periods"} :
           /\ reached # "start" => main_query_string(args) \notin Exceptions
           /\ reached = "periods" => ~ query_too_long(main_query_string(args))
           /\ query_string' = IF reached = "start" THEN query_string
                               ELSE main_query_string(args)
           /\ all_periods' = IF reached = "periods"
                              THEN get_periods(args.time_range, args.start_year,
                                               args.stop_year, now)
                              ELSE all_periods
           /\ responses_collected' \in IF reached = "periods"
                                        THEN SUBSET listdir_responses(dir)
                                        ELSE {responses_collected}
    /\ pc' = "killed"
    /\ last' = "interrupted_in_startup"
    /\ UNCHANGED <<argv, args, now, fold, tz, dir, idx, n_requests_until_fail,
                   events, last_sleep, dir_at_start, n_failures, run>>

\* the process is ended from outside at the top of an
\* attempt or while the request of lines 225-227 waits for its answer
Interrupted ==
    /\ InLoop
    /\ pc' = "killed"
    /\ last' = "interrupted"
    /\ UNCHANGED <<argv, args, now, fold, tz, dir, query_string, all_periods,
                   responses_collected, idx, n_requests_until_fail, events,
                   last_sleep, dir_at_start, n_failures, run>>

\* the process is ended from outside after the request is answered and
\* before line 233 opens the file (lines 228-232)
InterruptedAfterAnswer ==
    /\ InLoop
    /\ CurrentFn \notin responses_collected
    /\ events' = Append(events, RequestEvent(CurrentWindow, "answered"))
    /\ pc' = "killed"
    /\ last' = "interrupted_after_answer"
    /\ UNCHANGED <<argv, args, now, fold, tz, dir, query_string, all_periods,
                   responses_collected, idx, n_requests_until_fail,
                   last_sleep, dir_at_start, n_failures, run>>

\* the process is ended from outside while json.dump writes (lines 233-234)
InterruptedInWrite ==
    /\ InLoop
    /\ CurrentFn \notin responses_collected
    /\ events' = Append(events, RequestEvent(CurrentWindow, "answered"))
    /\ dir' = Put(dir, CurrentFn, Partial)
    /\ pc' = "killed"
    /\ last' = "interrupted_in_write"
    /\ UNCHANGED <<argv, args, now, fold, tz, query_string, all_periods,
                   responses_collected, idx, n_requests_until_fail,
                   last_sleep, dir_at_start, n_failures, run>>

\* the process is ended from outside in the sleep of line 237: the artifact
\* is written, the counter of line 238 and the break of line 239 are not
\* reached
InterruptedInSleep ==
    /\ pc = "sleep"
    /\ pc' = "killed"
    /\ last' = "interrupted_in_sleep"
    /\ UNCHANGED <<argv, args, now, fold, tz, dir, query_string, all_periods,
                   responses_collected, idx, n_requests_until_fail, events,
                   last_sleep, dir_at_start, n_failures, run>>

\* the process is ended from outside in the sleep of line 245, after an
\* attempt failed: lines 246-247 are not reached
InterruptedInRetrySleep ==
    /\ pc = "retry_sleep"
    /\ pc' = "killed"
    /\ last' = "interrupted_in_retry_sleep"
    /\ UNCHANGED <<argv, args, now, fold, tz, dir, query_string, all_periods,
                   responses_collected, idx, n_requests_until_fail, events,
                   last_sleep, dir_at_start, n_failures, run>>

\* the program is started again with the same command line, not earlier
\* than the run before
NextRun ==
    /\ pc \in {"done", "killed", "raised"}
    /\ run < MaxRuns
    /\ run' = run + 1
    /\ \E t \in RunNows, f \in {0, 1} :
           /\ IsNow(tz, t, f)
           /\ timestamp(t, f) >= timestamp(now, fold)
           /\ now' = t
           /\ fold' = f
    /\ args' = argv
    /\ dir_at_start' = dir
    /\ pc' = "start"
    /\ query_string' = <<>>
    /\ all_periods' = <<>>
    /\ responses_collected' = {}
    /\ idx' = 1
    /\ n_requests_until_fail' = 0
    /\ events' = <<>>
    /\ last' = "none"
    /\ last_sleep' = 0
    /\ n_failures' = 0
    /\ UNCHANGED <<argv, tz, dir>>

Next ==
    \/ StartupRaised
    \/ StartupTooLong
    \/ Startup
    \/ Skip
    \/ RequestFailed
    \/ RequestSucceeded
    \/ SleepOver
    \/ OpenFailed
    \/ DumpFailed
    \/ RetrySleepOver
    \/ LoopDone
    \/ InterruptedInStartup
    \/ Interrupted
    \/ InterruptedAfterAnswer
    \/ InterruptedInWrite
    \/ InterruptedInSleep
    \/ InterruptedInRetrySleep
    \/ NextRun

Spec == Init /\ [][Next]_vars

----------------------------------------------------------------------------
(* get_periods applied to a time range, a range of years and a clock *)

\* the clock: inside the first 90 minutes of MinYear and at their end, at
\* the end of a month, just after the February of a common and of a leap
\* year, and after every year a run may name
GenNows ==
    { datetime(MinYear, 1, 1, 1, 29, 59), datetime(MinYear, 1, 1, 1, 30, 0),
      datetime(MinYear, 1, 31, 10, 20, 30), datetime(MinYear + 1, 3, 1, 0, 45, 10),
      datetime(MinYear + 2, 3, 1, 1, 30, 0), datetime(MaxYear + 2, 6, 15, 12, 0, 0) }

\* the clock around a change of the offset: the morning after the hour that
\* is skipped in spring, and the hour that is repeated in autumn, in its
\* first and in its second pass
DstClocks ==
    { [now |-> datetime(MinYear, 3, 26, 3, 20, 0), fold |-> 0, tz |-> "Europe/Berlin"],
      [now |-> datetime(MinYear, 10, 29, 2, 20, 0), fold |-> 0, tz |-> "Europe/Berlin"],
      [now |-> datetime(MinYear, 10, 29, 2, 20, 0), fold |-> 1, tz |-> "Europe/Berlin"],
      [now |-> datetime(MinYear, 10, 29, 2, 30, 0), fold |-> 1, tz |-> "Europe/Berlin"],
      [now |-> datetime(MinYear, 4, 2, 3, 20, 0), fold |-> 0, tz |-> "America/New_York"],
      [now |-> datetime(MinYear, 10, 29, 1, 0, 0), fold |-> 1, tz |-> "America/New_York"],
      [now |-> datetime(MinYear, 10, 29, 1, 30, 0), fold |-> 1, tz |-> "America/New_York"] }

\* the clocks of the generator: GenNows in UTC and DstClocks, as far as
\* datetime.now() can give them
GenClocks ==
    { c \in [now : GenNows, fold : {0}, tz : {"UTC"}] \cup DstClocks :
        IsNow(c.tz, c.now, c.fold) }

GenArgs ==
    { a \in [time_range : TimeRanges, start_year : MinYear..MaxYear,
             stop_year : MinYear..MaxYear] : a.stop_year >= a.start_year }

\* the year ranges generated at the clocks of DstClocks: the year of the
\* clock and the year after it
DstArgs == { a \in GenArgs : a.stop_year <= MinYear + 1 }

\* arguments and clock of one call of get_periods
GenInputs ==
    { i \in [args : GenArgs, clock : GenClocks] :
        i.clock \in DstClocks => i.args \in DstArgs }

InitGen ==
    /\ pc = "gen"
    /\ \E i \in GenInputs :
           /\ argv = i.args
           /\ now = i.clock.now
           /\ fold = i.clock.fold
           /\ tz = i.clock.tz
    /\ args = argv
    /\ dir = DirOf({})
    /\ dir_at_start = DirOf({})
    /\ run = 1
    /\ NoRunState

Generate ==
    /\ pc = "gen"
    /\ all_periods' = get_periods(args.time_range, args.start_year, args.stop_year, now)
    /\ pc' = "generated"
    /\ UNCHANGED <<argv, args, now, fold, tz, dir, query_string, responses_collected, idx,
                   n_requests_until_fail, events, last, last_sleep,
                   dir_at_start, n_failures, run>>

NextGen == Generate

SpecGen == InitGen /\ [][NextGen]_vars

----------------------------------------------------------------------------
(* build_query applied to stop words, filters and options *)

QueryArgs ==
    [ stop_words : { <<>>, << <<"a">> >>, << <<"a">>, <<"b">> >>,
                     << <<"a", " ", "b">>, <<"c">>, <<"d">> >> },
      lang : {None, <<>>, LangPrefix \o <<"e", "n">>},
      place : {None, PlacePrefix \o <<"x">>},
      country : {None, CountryPrefix \o <<"N", "G">>},
      point_radius : {None, <<"p", "r", ":", "[", "1", " ", "2", "]">>},
      coords : {None, <<"b", "b", ":", "[", "3", "]">>},
      query_options : {Opt, <<>>} ]

InitQuery ==
    /\ pc = "query"
    /\ argv \in QueryArgs
    /\ args = argv
    /\ now = 0
    /\ fold = 0
    /\ tz = "UTC"
    /\ dir = DirOf({})
    /\ dir_at_start = DirOf({})
    /\ run = 1
    /\ NoRunState

Build ==
    /\ pc = "query"
    /\ query_string' = build_query(args.stop_words, args.lang, args.place, args.country,
                                   args.point_radius, args.coords, args.query_options)
    /\ pc' = "built"
    /\ UNCHANGED <<argv, args, now, fold, tz, dir, all_periods, responses_collected, idx,
                   n_requests_until_fail, events, last, last_sleep,
                   dir_at_start, n_failures, run>>

NextQuery == Build

SpecQuery == InitQuery /\ [][NextQuery]_vars

----------------------------------------------------------------------------
(* Properties *)

DigitValue == [c \in {DigitChars[i] : i \in 1..10} |-> CHOOSE d \in 0..9 : Digit(d) = c]

Num2(s, i) == DigitValue[s[i]] * 10 + DigitValue[s[i + 1]]

\* the moment a formatted time YYYY-MM-DDTHH:MM:SSZ names
TimeOf(s) ==
    datetime(Num2(s, 1) * 100 + Num2(s, 3), Num2(s, 6), Num2(s, 9),
             Num2(s, 12), Num2(s, 15), Num2(s, 18))

\* the flattened periods of the generator, by position
NWindows == IF all_periods = <<>> THEN 0 ELSE Len(all_periods[1])
WindowStart(i) == TimeOf(all_periods[1][i][1])
WindowEnd(i) == TimeOf(all_periods[1][i][2])

WindowOf(e) == <<e.start_time, e.end_time>>
IsRequest(e) == e.kind = "request"
IsWrite(e) == e.kind = "write"

\* the generated windows that had no file in the directory at startup, in
\* the order of the generator
Pending == SelectSeq(Windows, LAMBDA w : FnOfPeriod(w) \notin DOMAIN dir_at_start)

PositionIn(ws, w) == CHOOSE k \in 1..Len(ws) : ws[k] = w

\* the attempts of this run that went through the except clause to its end
\* (an attempt that is in the sleep of line 245, or during or after which
\* the process was ended, did not)
FailedAttempts ==
    { i \in 1..Len(events) :
        /\ IsRequest(events[i])
        /\ ~ (i < Len(events) /\ IsWrite(events[i + 1]))
        /\ ~ (i = Len(events)
              /\ last \in {"request_raised", "write_raised", "dump_raised",
                           "interrupted_after_answer", "interrupted_in_write",
                           "interrupted_in_retry_sleep"}) }

\* the failed attempts since the latest artifact written in this run
FailuresSinceWrite ==
    { f \in FailedAttempts : \A i \in 1..Len(events) : IsWrite(events[i]) => i < f }

----------------------------------------------------------------------------
\* C1 (resume): whatever files the output directory holds at startup, a run
\* requests no generated window whose file name is among them; its requests
\* follow the order of the generator; and a run that reaches its end has
\* requested every other generated window.
ResumeSkipsCollected ==
    LET pending == Pending IN
    /\ \A i \in 1..Len(events) :
           IsRequest(events[i]) =>
               /\ FnOfPeriod(WindowOf(events[i])) \notin DOMAIN dir_at_start
               /\ \E k \in 1..Len(pending) : pending[k] = WindowOf(events[i])
    /\ \A i \in 1..Len(events) : \A j \in i..Len(events) :
           IsRequest(events[i]) /\ IsRequest(events[j]) =>
               PositionIn(pending, WindowOf(events[i])) <= PositionIn(pending, WindowOf(events[j]))
    /\ pc = "done" =>
           \A k \in 1..Len(pending) :
               \E i \in 1..Len(events) :
                   IsRequest(events[i]) /\ WindowOf(events[i]) = pending[k]

\* a finished run that skipped a collected window between two windows it
\* requested
ResumeSkipsCollectedWitness ==
    /\ pc = "done"
    /\ \E k \in 2..(Len(Windows) - 1) :
           /\ FnOfPeriod(Windows[k]) \in DOMAIN dir_at_start
           /\ \A e \in 1..Len(events) : WindowOf(events[e]) # Windows[k]
           /\ \E i \in 1..Len(events) : \E j \in i..Len(events) :
                  /\ IsRequest(events[i]) /\ WindowOf(events[i]) = Windows[k - 1]
                  /\ IsRequest(events[j]) /\ WindowOf(events[j]) = Windows[k + 1]

----------------------------------------------------------------------------
\* C2 (retry writes once): an artifact is written only by an attempt whose
\* remote call was answered, at most once per window and run; once it is
\* written the window is neither requested nor written again; an attempt
\* whose remote call raised leaves no artifact of its window; and a run that
\* reaches its end has written exactly one artifact for every window that
\* had no file at startup.
RetryWritesOnce ==
    /\ \A i \in 1..Len(events) :
           IsWrite(events[i]) =>
               /\ i > 1
               /\ IsRequest(events[i - 1])
               /\ events[i - 1].outcome = "answered"
               /\ WindowOf(events[i - 1]) = WindowOf(events[i])
               /\ \A j \in (i + 1)..Len(events) : WindowOf(events[j]) # WindowOf(events[i])
               /\ dir[FnOfPeriod(WindowOf(events[i]))] = Artifact(WindowOf(events[i]))
    /\ last \in {"request_raised", "failed"} =>
           /\ events[Len(events)].outcome = "raised"
           /\ \A i \in 1..Len(events) :
                  IsWrite(events[i]) => WindowOf(events[i]) # WindowOf(events[Len(events)])
           /\ FnOfPeriod(WindowOf(events[Len(events)])) \in DOMAIN dir =>
                  ~ dir[FnOfPeriod(WindowOf(events[Len(events)]))].complete
    /\ pc = "done" =>
           \A k \in 1..Len(Pending) :
               Cardinality({i \in 1..Len(events) :
                                IsWrite(events[i]) /\ WindowOf(events[i]) = Pending[k]}) = 1

\* three remote calls for one window raised, the fourth was answered and its
\* artifact is the one written for the window
RetryWritesOnceWitness ==
    /\ last = "succeeded"
    /\ Len(events) >= 5
    /\ \A i \in (Len(events) - 4)..(Len(events) - 2) :
           /\ events[i].outcome = "raised"
           /\ WindowOf(events[i]) = WindowOf(events[Len(events)])
    /\ events[Len(events) - 1].outcome = "answered"
    /\ IsWrite(events[Len(events)])
    /\ dir[FnOfPeriod(WindowOf(events[Len(events)]))].complete

----------------------------------------------------------------------------
\* C3 (failure counter): the counter of the run is the number of failed
\* requests since the latest success: every failed request adds one and
\* every success sets it to 0, so it is 0 right after a success.
FailureCounterResetBySuccess ==
    /\ n_requests_until_fail = Cardinality(FailuresSinceWrite)
    /\ last = "succeeded" => n_requests_until_fail = 0

----------------------------------------------------------------------------
\* C4 (adaptive backoff): within a run the sleep duration is the one the
\* run started with plus one increment for every failed attempt so far, so
\* it never decreases and a success leaves it as it is; the sleep after a
\* success lasts the current duration, which after f >= 1 failures exceeds
\* the initial one by f increments.
BackoffMonotone ==
    /\ args.sleep_duration = argv.sleep_duration + Cardinality(FailedAttempts) * SleepIncrement
    /\ args.sleep_duration >= argv.sleep_duration
    /\ last \in {"written", "succeeded"} =>
           /\ last_sleep = args.sleep_duration
           /\ Cardinality(FailedAttempts) >= 1 => last_sleep > argv.sleep_duration
    /\ last \in {"request_raised", "write_raised", "dump_raised", "failed",
                "write_failed"} =>
           last_sleep = args.retry_duration

\* three failures, then a success whose sleep is three increments longer
\* than the initial duration
BackoffMonotoneWitness ==
    /\ last = "succeeded"
    /\ Cardinality(FailedAttempts) = 3
    /\ last_sleep = argv.sleep_duration + 3 * SleepIncrement

----------------------------------------------------------------------------
\* C7 (query length budget): a run whose query is longer than QueryLimit
\* ends at once, with no request, no artifact, no period generated and the
\* directory as it was; a run whose query has at most QueryLimit characters
\* lists the directory and enters the fetch loop, and when it ends every
\* generated window has its file. A run that is ended from outside before
\* the loop has made no request and has left the directory as it was, and
\* has generated no period if its query is longer than QueryLimit.
QueryLengthBudget ==
    pc \notin {"start", "raised"} =>
        IF last = "interrupted_in_startup"
        THEN /\ pc = "killed"
             /\ events = <<>>
             /\ dir = dir_at_start
             /\ Len(query_string) > QueryLimit =>
                    all_periods = <<>> /\ responses_collected = {}
        ELSE IF Len(query_string) > QueryLimit
        THEN /\ pc = "done"
             /\ events = <<>>
             /\ dir = dir_at_start
             /\ all_periods = <<>>
        ELSE /\ pc \in InRun \cup {"done", "killed"}
             /\ responses_collected =
                    {fn \in DOMAIN dir_at_start : endswith(fn, ResponseSuffix)}
             /\ pc = "done" =>
                    \A k \in 1..Len(Windows) : FnOfPeriod(Windows[k]) \in DOMAIN dir

\* a run with a query of QueryLimit + 1 characters has ended, over a
\* directory that holds an artifact
QueryLengthBudgetWitness ==
    /\ pc = "done"
    /\ Len(query_string) = QueryLimit + 1
    /\ events = <<>>
    /\ \E fn \in DOMAIN dir : endswith(fn, ResponseSuffix)

----------------------------------------------------------------------------
\* C10 (atomic persist): a window is skipped only if the file of its name
\* holds a complete artifact.
SkippedOnlyIfComplete ==
    last = "skip" => dir[FnOfPeriod(Windows[idx - 1])].complete

----------------------------------------------------------------------------
\* C5 (ordered windows): in the flattened result of get_periods every window
\* starts before it ends, and every window ends no later than the next one
\* starts.
WindowsOrdered ==
    pc = "generated" =>
        /\ \A i \in 1..NWindows : WindowStart(i) < WindowEnd(i)
        /\ \A i \in 1..(NWindows - 1) : WindowEnd(i) <= WindowStart(i + 1)

----------------------------------------------------------------------------
\* the seconds that have passed since the local time t (the first of two
\* equal readings of the clock), as line 78 measures them
ElapsedSince(t) == timestamp(now, fold) - timestamp(t, 0)

\* C6 (recency): no window of get_periods ends after now, and none starts
\* less than 90 minutes before now.
WindowsNotRecent ==
    pc = "generated" =>
        \A i \in 1..NWindows :
            /\ ElapsedSince(WindowEnd(i)) >= 0
            /\ ElapsedSince(WindowStart(i)) >= MinAgeSeconds

----------------------------------------------------------------------------
\* the tokens ts joined by sep
RECURSIVE JoinTokens(_, _)
JoinTokens(ts, sep) ==
    IF ts = <<>> THEN <<>>
    ELSE IF Len(ts) = 1 THEN ts[1]
    ELSE ts[1] \o sep \o JoinTokens(Tail(ts), sep)

Quoted(word) == <<"\"">> \o word \o <<"\"">>

StopWordClause(words) ==
    <<"(">> \o JoinTokens([i \in 1..Len(words) |-> Quoted(words[i])], <<" ", "O", "R", " ">>)
    \o <<")">>

FiltersSupplied(a) ==
    SelectSeq(<<a.lang, a.place, a.country, a.point_radius, a.coords>>,
              Truthy)

\* C8 (no stop words): without stop words, language and geo filter the
\* query is the options text alone.
OptionsAloneWithoutStopWords ==
    (/\ pc = "built"
     /\ args.stop_words = <<>>
     /\ FiltersSupplied(args) = <<>>)
        => query_string = args.query_options

\* C9 (query layout): with stop words the query is the clause of the quoted
\* words joined by " OR " in parentheses, then the filters supplied in the
\* order lang, place, place_country, point_radius, bounding_box, then the
\* options, with one space between any two of them.
QueryLayout ==
    (pc = "built" /\ args.stop_words # <<>>)
        => query_string =
               JoinTokens(<<StopWordClause(args.stop_words)>> \o FiltersSupplied(args)
                          \o <<args.query_options>>, <<" ">>)

\* build_query(["a", "b"], "lang:en", None, None, None, None, "opt") has
\* returned ("a" OR "b") lang:en opt
QueryLayoutWitness ==
    /\ pc = "built"
    /\ args.stop_words = << <<"a">>, <<"b">> >>
    /\ args.lang = <<"l", "a", "n", "g", ":", "e", "n">>
    /\ FiltersSupplied(args) = <<args.lang>>
    /\ args.query_options = <<"o", "p", "t">>
    /\ query_string = <<"(", "\"", "a", "\"", " ", "O", "R", " ", "\"", "b", "\"", ")",
                        " ", "l", "a", "n", "g", ":", "e", "n", " ", "o", "p", "t">>

----------------------------------------------------------------------------
\* the first instant of a year, and the number of whole hours of the years
\* start_year..stop_year whose start is at least 90 minutes before t
YearStart(year) == datetime(year, 1, 1, 0, 0, 0)

HoursOldEnough(start_year, stop_year, t) ==
    Max(0, Min((YearStart(stop_year + 1) - YearStart(start_year)) \div SecondsPerHour,
               IF t - MinAgeSeconds < YearStart(start_year) THEN 0
               ELSE (t - MinAgeSeconds - YearStart(start_year)) \div SecondsPerHour + 1))

\* the date a formatted time names is one of the calendar
NamesCalendarDate(s) ==
    /\ Num2(s, 6) \in 1..12
    /\ Num2(s, 9) \in 1..daysinmonth(Num2(s, 1) * 100 + Num2(s, 3), Num2(s, 6))
    /\ Num2(s, 12) \in 0..23

\* the k-th hour of the years from start_year on, and the number of hours of
\* the years start_year..stop_year
HourStart(start_year, k) == YearStart(start_year) + (k - 1) * SecondsPerHour

HoursInRange(start_year, stop_year) ==
    (YearStart(stop_year + 1) - YearStart(start_year)) \div SecondsPerHour

\* C11 (hourly generation is exact): the hourly windows are the hours of the
\* years start_year..stop_year that started at least 90 minutes ago, each
\* once and in order, [h, h + 1 hour), and every window names a date and
\* hour of the calendar.  The hours are those of the calendar of the local
\* clock, the 90 minutes are time that has passed (the two differ only
\* where the clock is set forward or back).
HourlyExact ==
    (pc = "generated" /\ args.time_range = "hourly") =>
        /\ NWindows <= HoursInRange(args.start_year, args.stop_year)
        /\ NWindows >= 1 =>
               ElapsedSince(HourStart(args.start_year, NWindows)) >= MinAgeSeconds
        /\ NWindows < HoursInRange(args.start_year, args.stop_year) =>
               ElapsedSince(HourStart(args.start_year, NWindows + 1)) < MinAgeSeconds
        /\ tz = "UTC" =>
               NWindows = HoursOldEnough(args.start_year, args.stop_year, now)
        /\ \A i \in 1..NWindows :
               /\ WindowStart(i) = HourStart(args.start_year, i)
               /\ WindowEnd(i) = WindowStart(i) + SecondsPerHour
               /\ NamesCalendarDate(all_periods[1][i][1])

\* the hourly windows of a leap year up to March 1, with the last hour of
\* February 29 among them, followed by the first hour of March 1
HourlyExactWitness ==
    /\ pc = "generated"
    /\ args.time_range = "hourly"
    /\ args.start_year = MinYear + 2
    /\ now = datetime(MinYear + 2, 3, 1, 1, 30, 0)
    /\ \E i \in 1..(NWindows - 1) :
           /\ all_periods[1][i][1] = <<"2", "0", "0", "8", "-", "0", "2", "-", "2", "9",
                                       "T", "2", "3", ":", "0", "0", ":", "0", "0", "Z">>
           /\ all_periods[1][i + 1][1] = <<"2", "0", "0", "8", "-", "0", "3", "-", "0", "1",
                                           "T", "0", "0", ":", "0", "0", ":", "0", "0", "Z">>

----------------------------------------------------------------------------
WeekSeconds == DaysPerWeek * SecondsPerDay

\* C12 (weekly windows are anchored and contiguous): when Jan 1 00:00 of
\* start_year is at least 90 minutes ago, the first weekly window starts
\* there, every window starts where the one before it ends, a window whose
\* seven days end by now spans exactly seven days, and a window whose seven
\* days would end after now ends at now and is the last one.
WeeklyAnchored ==
    (/\ pc = "generated"
     /\ args.time_range = "weekly"
     /\ ElapsedSince(YearStart(args.start_year)) >= MinAgeSeconds)
        => /\ NWindows >= 1
           /\ WindowStart(1) = YearStart(args.start_year)
           /\ \A i \in 1..(NWindows - 1) : WindowStart(i + 1) = WindowEnd(i)
           /\ \A i \in 1..NWindows :
                  IF WindowStart(i) + WeekSeconds <= now
                  THEN WindowEnd(i) = WindowStart(i) + WeekSeconds
                  ELSE WindowEnd(i) = now /\ i = NWindows

\* weekly windows from Jan 1 on, the last of them cut at now
WeeklyAnchoredWitness ==
    /\ pc = "generated"
    /\ args.time_range = "weekly"
    /\ NWindows >= 3
    /\ all_periods[1][1] = <<strftime(YearStart(args.start_year)),
                             strftime(YearStart(args.start_year) + WeekSeconds)>>
    /\ WindowEnd(NWindows) = now
    /\ WindowEnd(NWindows) - WindowStart(NWindows) < WeekSeconds

----------------------------------------------------------------------------
\* the end of the last whole day of the years start_year..stop_year that
\* ends more than 90 minutes before t (the start of the span when there is
\* no such day)
CoveredUntil(start_year, stop_year, t) ==
    YearStart(start_year)
    + SecondsPerDay
      * Max(0, Min((YearStart(stop_year + 1) - YearStart(start_year)) \div SecondsPerDay,
                   IF t - MinAgeSeconds - 1 < YearStart(start_year) THEN 0
                   ELSE (t - MinAgeSeconds - 1 - YearStart(start_year)) \div SecondsPerDay))

\* C13 (the span is covered): every whole day of the years
\* start_year..stop_year that ends more than 90 minutes before now lies in
\* the union of the windows: the first window starts no later than Jan 1 of
\* start_year, the last one ends no earlier than the last second of the last
\* such day, and up to there no two consecutive windows leave more than a
\* second between them.
SpanCovered ==
    (/\ pc = "generated"
     /\ CoveredUntil(args.start_year, args.stop_year, now) > YearStart(args.start_year))
        => /\ NWindows >= 1
           /\ WindowStart(1) <= YearStart(args.start_year)
           /\ WindowEnd(NWindows) + 1 >= CoveredUntil(args.start_year, args.stop_year, now)
           /\ \A i \in 1..(NWindows - 1) :
                  WindowEnd(i) + 1 < CoveredUntil(args.start_year, args.stop_year, now)
                      => WindowStart(i + 1) <= WindowEnd(i) + 1

----------------------------------------------------------------------------
\* the requests of this run whose remote call raised
RaisedRequests == { i \in FailedAttempts : events[i].outcome = "raised" }

\* the requests of this run that were answered and whose artifact could not
\* be written
UnwrittenAnswers ==
    { i \in FailedAttempts : events[i].outcome = "answered" }

\* C14 (a failed write is fatal for the window): after an answered request
\* whose artifact could not be written the window is not taken as done, the
\* sleep duration has grown by the remote failures only, and the window is
\* not requested again.
PersistenceFailureFatal ==
    /\ last = "write_failed" =>
           /\ idx <= Len(Windows)
           /\ Windows[idx] = WindowOf(events[Len(events)])
           /\ n_requests_until_fail = 0
    /\ args.sleep_duration =
           argv.sleep_duration + Cardinality(RaisedRequests) * SleepIncrement
    /\ \A i \in UnwrittenAnswers : \A j \in (i + 1)..Len(events) :
           WindowOf(events[j]) # WindowOf(events[i])

----------------------------------------------------------------------------
\* the generated windows before the one an event is about
EarlierWindows(e) == { Windows[q] : q \in 1..(PositionIn(Windows, WindowOf(e)) - 1) }

\* a window is settled before event i of this run: its file was in the
\* directory at startup, or an earlier event of the run wrote it
SettledBefore(w, i) ==
    \/ FnOfPeriod(w) \in DOMAIN dir_at_start
    \/ \E j \in 1..(i - 1) : IsWrite(events[j]) /\ WindowOf(events[j]) = w

\* C15 (strictly sequential fetch): an artifact is written right after the
\* answered request for its own window, so no second window is in flight in
\* between; a request that does not end in a write is followed by a request
\* for the same window, or, being the latest event, leaves the run at that
\* window; a window is requested only when every generated window before it
\* was written earlier in the run or had its file in the directory at
\* startup; and the query string of the requests is the one built from the
\* command line.
SequentialFetch ==
    /\ \A i \in 1..Len(events) : IsWrite(events[i]) =>
           /\ i > 1
           /\ events[i - 1].outcome = "answered"
           /\ WindowOf(events[i - 1]) = WindowOf(events[i])
    /\ \A i \in FailedAttempts :
           IF i < Len(events)
           THEN IsRequest(events[i + 1]) /\ WindowOf(events[i + 1]) = WindowOf(events[i])
           ELSE idx <= Len(Windows) /\ Windows[idx] = WindowOf(events[i])
    /\ \A i \in 1..Len(events) : IsRequest(events[i]) =>
           \A w \in EarlierWindows(events[i]) : SettledBefore(w, i)
    /\ pc \in InRun => query_string = main_query_string(argv)

\* a run whose request failed and was repeated for the same window, and
\* which later requested a window that follows one found at startup and one
\* written in the run
SequentialFetchWitness ==
    /\ pc = "loop"
    /\ \E f \in FailedAttempts : f < Len(events)
    /\ \E i \in 1..Len(events) :
           /\ IsRequest(events[i])
           /\ \E w \in EarlierWindows(events[i]) : FnOfPeriod(w) \in DOMAIN dir_at_start
           /\ \E w \in EarlierWindows(events[i]) : FnOfPeriod(w) \notin DOMAIN dir_at_start

----------------------------------------------------------------------------
\* the artifact of a window is in the directory, whole
Written(d, w) == FnOfPeriod(w) \in DOMAIN d /\ d[FnOfPeriod(w)] = Artifact(w)

\* the run is at a window it has to request
AtPendingWindow ==
    /\ pc \in InRun
    /\ idx <= Len(Windows)
    /\ CurrentFn \notin responses_collected

\* C16 (no failure terminal state), the part of it that is about single
\* steps: a run that is at a window it has to request moves to another
\* window, or ends its loops, only in a step that leaves the artifact of
\* that window written; and a run that has ended with a query inside the
\* limit has written every generated window whose file was not in the
\* directory at startup.
LeavesWindowOnlyWritten ==
    /\ [][AtPendingWindow /\ (idx' # idx \/ pc' = "done") => Written(dir', CurrentWindow)]_vars
    /\ [](pc = "done" /\ ~ query_too_long(query_string) =>
              \A k \in 1..Len(Pending) : Written(dir, Pending[k]))

----------------------------------------------------------------------------
\* the number of days of the years start_year..stop_year that start at
\* least MinAgeSeconds before t
DaysOldEnough(start_year, stop_year, t) ==
    Max(0, Min((YearStart(stop_year + 1) - YearStart(start_year)) \div SecondsPerDay,
               IF t - MinAgeSeconds < YearStart(start_year) THEN 0
               ELSE (t - MinAgeSeconds - YearStart(start_year)) \div SecondsPerDay + 1))

\* the k-th day of the years from start_year on, and the number of days of
\* the years start_year..stop_year
DayStart(start_year, k) == YearStart(start_year) + (k - 1) * SecondsPerDay

DaysInRange(start_year, stop_year) ==
    (YearStart(stop_year + 1) - YearStart(start_year)) \div SecondsPerDay

\* C17 (daily truncation at the present): the daily windows are the days of
\* the years start_year..stop_year that started at least 90 minutes ago
\* (time that has passed), one window per calendar day in order, from 00:00
\* to 00:00 of the next day; a window whose next midnight is after now ends
\* one hour before now instead, and it is the last window of the sequence.
DailyTruncated ==
    (pc = "generated" /\ args.time_range = "daily") =>
        /\ NWindows <= DaysInRange(args.start_year, args.stop_year)
        /\ NWindows >= 1 =>
               ElapsedSince(DayStart(args.start_year, NWindows)) >= MinAgeSeconds
        /\ NWindows < DaysInRange(args.start_year, args.stop_year) =>
               ElapsedSince(DayStart(args.start_year, NWindows + 1)) < MinAgeSeconds
        /\ tz = "UTC" =>
               NWindows = DaysOldEnough(args.start_year, args.stop_year, now)
        /\ \A i \in 1..NWindows :
               /\ WindowStart(i) = DayStart(args.start_year, i)
               /\ NamesCalendarDate(all_periods[1][i][1])
               /\ IF WindowStart(i) + SecondsPerDay > now
                  THEN WindowEnd(i) = now - DailyClipSeconds /\ i = NWindows
                  ELSE WindowEnd(i) = WindowStart(i) + SecondsPerDay

\* the days of January of MinYear generated late in the morning of the
\* 31st for a range of several years: the 31st ends one hour before now and
\* nothing follows it
DailyTruncatedWitness ==
    /\ pc = "generated"
    /\ args.time_range = "daily"
    /\ args.start_year = MinYear
    /\ args.stop_year = MaxYear
    /\ now = datetime(MinYear, 1, 31, 10, 20, 30)
    /\ NWindows = 31
    /\ all_periods[1][31] = << <<"2", "0", "0", "6", "-", "0", "1", "-", "3", "1",
                                 "T", "0", "0", ":", "0", "0", ":", "0", "0", "Z">>,
                               <<"2", "0", "0", "6", "-", "0", "1", "-", "3", "1",
                                 "T", "0", "9", ":", "2", "0", ":", "3", "0", "Z">> >>

----------------------------------------------------------------------------
\* the i-th month counted from January of start_year: its year, its month,
\* its first instant and its last second by the lengths of the calendar
NthMonthYear(start_year, i) == start_year + (i - 1) \div MonthsPerYear
NthMonth(i) == ((i - 1) % MonthsPerYear) + 1
NthMonthStart(start_year, i) ==
    datetime(NthMonthYear(start_year, i), NthMonth(i), 1, 0, 0, 0)
NthMonthLastSecond(start_year, i) ==
    NthMonthStart(start_year, i)
    + daysinmonth(NthMonthYear(start_year, i), NthMonth(i)) * SecondsPerDay - 1

\* the months, and the years, of start_year..stop_year that started at
\* least MinAgeSeconds ago
MonthsOldEnough(start_year, stop_year) ==
    Cardinality({ i \in 1..((stop_year - start_year + 1) * MonthsPerYear) :
                    ElapsedSince(NthMonthStart(start_year, i)) >= MinAgeSeconds })
YearsOldEnough(start_year, stop_year) ==
    Cardinality({ y \in start_year..stop_year :
                    ElapsedSince(YearStart(y)) >= MinAgeSeconds })

LastSecondOfYear == <<"-", "1", "2", "-", "3", "1", "T", "2", "3", ":", "5", "9", ":", "5", "9", "Z">>

\* C18 (monthly and yearly windows follow the calendar): the monthly windows
\* are the months of start_year..stop_year that started at least 90 minutes
\* ago (time that has passed), in order, each from the first instant of the month to its
\* last second (the length of the month by the calendar, leap years
\* included); the yearly windows are the years that started at least 90
\* minutes ago, each from January 1 00:00:00 to December 31
\* 23:59:59; in both, a window whose last second is after now ends at now
\* and is the last window.
CalendarWindows ==
    /\ (pc = "generated" /\ args.time_range = "monthly") =>
           /\ NWindows = MonthsOldEnough(args.start_year, args.stop_year)
           /\ \A i \in 1..NWindows :
                  /\ WindowStart(i) = NthMonthStart(args.start_year, i)
                  /\ IF NthMonthLastSecond(args.start_year, i) > now
                     THEN WindowEnd(i) = now /\ i = NWindows
                     ELSE WindowEnd(i) = NthMonthLastSecond(args.start_year, i)
    /\ (pc = "generated" /\ args.time_range = "yearly") =>
           /\ NWindows = YearsOldEnough(args.start_year, args.stop_year)
           /\ \A i \in 1..NWindows :
                  /\ WindowStart(i) = YearStart(args.start_year + i - 1)
                  /\ IF YearStart(args.start_year + i) - 1 > now
                     THEN WindowEnd(i) = now /\ i = NWindows
                     ELSE /\ WindowEnd(i) = YearStart(args.start_year + i) - 1
                          /\ SubSeq(all_periods[1][i][2], 5, 20) = LastSecondOfYear

\* the months from January of MinYear generated on March 1 of the leap year
\* MinYear + 2 at 01:30:00: December of MinYear is followed by January,
\* February of MinYear + 2 ends on the 29th, and March, cut at now, is last
CalendarWindowsWitness ==
    /\ pc = "generated"
    /\ args.time_range = "monthly"
    /\ args.start_year = MinYear
    /\ args.stop_year = MaxYear
    /\ now = datetime(MinYear + 2, 3, 1, 1, 30, 0)
    /\ NWindows = 27
    /\ all_periods[1][12][2] = <<"2", "0", "0", "6">> \o LastSecondOfYear
    /\ all_periods[1][13][1] = <<"2", "0", "0", "7", "-", "0", "1", "-", "0", "1",
                                 "T", "0", "0", ":", "0", "0", ":", "0", "0", "Z">>
    /\ all_periods[1][26][2] = <<"2", "0", "0", "8", "-", "0", "2", "-", "2", "9",
                                 "T", "2", "3", ":", "5", "9", ":", "5", "9", "Z">>
    /\ all_periods[1][27][2] = <<"2", "0", "0", "8", "-", "0", "3", "-", "0", "1",
                                 "T", "0", "1", ":", "3", "0", ":", "0", "0", "Z">>

----------------------------------------------------------------------------
\* C19 (windows stay inside the requested year range): every generated
\* window starts at or after January 1 00:00 of start_year and ends no
\* later than January 1 00:00 of the year after stop_year.
WindowsInsideYearRange ==
    pc = "generated" =>
        \A i \in 1..NWindows :
            /\ WindowStart(i) >= YearStart(args.start_year)
            /\ WindowEnd(i) <= YearStart(args.stop_year + 1)

----------------------------------------------------------------------------
\* the whole artifacts of a directory
WholeArtifacts(d) == { fn \in DOMAIN d : d[fn].complete }

\* two artifacts whose windows have more than an end point in common
Overlap(a, b) ==
    /\ TimeOf(a.start_time) < TimeOf(b.end_time)
    /\ TimeOf(b.start_time) < TimeOf(a.end_time)

\* C20 (no interval is collected twice across resumed runs): when the
\* directory was empty before the first run (no file of InitialDirs is in
\* it), the windows of the whole artifacts it holds after any number of runs
\* of the same command line, started at non-decreasing times, do not
\* overlap one another.
NoIntervalCollectedTwice ==
    NotesFile \notin DOMAIN dir =>
        \A f, g \in WholeArtifacts(dir) : f # g => ~ Overlap(dir[f], dir[g])

====
